---- MODULE Spec2Model ----
(***************************************************************************)
(* Session / request-dispatch layer of the openlist client.                *)
(*                                                                         *)
(*   src/openlist/context.py              Context (auth_token, client)     *)
(*   src/openlist/core/authentication.py  Authentication.login / logout    *)
(*   src/openlist/__init__.py             Client.login / logout            *)
(*   src/openlist/core/admin.py           UserMe, MySSHKey                 *)
(*   src/openlist/core/file.py            FileSystem                       *)
(*   src/openlist/cli/__init__.py         Cli.start, _execute_command,     *)
(*                                        _cleanup                         *)
(*   src/openlist/cli/commands/           connect, logout, cd, ls, rm      *)
(*                                                                         *)
(* Python strings are sequences of one-character strings, so that          *)
(* splitting a token on "." is computed and not assumed.  A Python value   *)
(* that may be None is a record [isnone, s].                               *)
(*                                                                         *)
(* Authentication.login and Authentication.logout are coroutines: each     *)
(* has one suspension point, the awaited HTTP call, so each is two steps   *)
(* (send, receive) of a task and other tasks may run in between.  The      *)
(* methods of UserMe and MySSHKey are plain blocking calls: one step.      *)
(* Client.login and Client.logout call the coroutine functions without     *)
(* awaiting them: the coroutine object is built and dropped, its body      *)
(* never runs.  A FileSystem method is a coroutine that touches nothing    *)
(* shared after its one awaited request: it is one step, taken where the   *)
(* request is issued.                                                      *)
(***************************************************************************)
EXTENDS Integers, Sequences, FiniteSets, TLC

\* ------------------------------------------------------------------ bounds
MaxTime == 2
NumTasks == 2
MaxPathLen == 3
MaxNames == 2

Tasks == 1..NumTasks
Times == 0..MaxTime

\* ------------------------------------------------------- Python values
PyNone == [isnone |-> TRUE, s |-> <<>>]

PyStr(s) == [isnone |-> FALSE, s |-> s]

\* bool(v) for v None or a str
Truthy(v) == (~v.isnone) /\ v.s # <<>>

\* str.split(sep) on a character sequence
RECURSIVE SplitAcc(_, _, _)
SplitAcc(s, sep, cur) ==
    IF s = <<>> THEN <<cur>>
    ELSE IF Head(s) = sep THEN <<cur>> \o SplitAcc(Tail(s), sep, <<>>)
    ELSE SplitAcc(Tail(s), sep, Append(cur, Head(s)))

Split(s, sep) == SplitAcc(s, sep, <<>>)

\* ------------------------------------------------------- Token codec
\* The claim set of a payload segment, or decodable = FALSE when the
\* segment is not base64url JSON.  Segment "a" carries exp = 1, "b" exp = 2.
B64JsonDecode(seg) ==
    IF seg = <<"a">> THEN [decodable |-> TRUE, exp |-> 1]
    ELSE IF seg = <<"b">> THEN [decodable |-> TRUE, exp |-> 2]
    ELSE [decodable |-> FALSE, exp |-> 0]

\* utils.decode_token: [ok, exp]; ok = FALSE stands for MalformedToken
decode_token(tok) ==
    IF tok.isnone THEN [ok |-> FALSE, exp |-> 0]
    ELSE LET segs == Split(tok.s, ".")
         IN IF Len(segs) # 3 THEN [ok |-> FALSE, exp |-> 0]
            ELSE LET p == B64JsonDecode(segs[2])
                 IN [ok |-> p.decodable, exp |-> p.exp]

\* ------------------------------------------------------- the tokens used
\* two tokens that decode, one whose payload segment does not, and ""
TokA == <<"h", ".", "a", ".", "s">>

TokB == <<"h", ".", "b", ".", "s">>

TokZ == <<"h", ".", "z", ".", "s">>

TokenStrings == {TokA, TokB, TokZ, <<>>}

\* the values a JSON "token" member can have: null or a string
TokenValues == {PyNone} \cup {PyStr(s) : s \in TokenStrings}

\* ------------------------------------------------------- HTTP responses
Statuses == {200, 401, 403, 500}

NoData == [kind |-> "absent", has_token |-> FALSE, token |-> PyNone, fields_ok |-> FALSE]

\* the JSON values of the envelope's "data" member; kind "absent" = no key
DataNull == [NoData EXCEPT !.kind = "null"]

DataStr == [NoData EXCEPT !.kind = "str"]

DataObj(has_token, token, fields_ok) ==
    [kind |-> "obj", has_token |-> has_token, token |-> token, fields_ok |-> fields_ok]

DataList(items_ok) == [NoData EXCEPT !.kind = "list", !.fields_ok = items_ok]

\* a response body: a JSON object whose members code, message, data may
\* each be missing
Body(has_code, code, has_msg, data) ==
    [has_code |-> has_code, code |-> IF has_code THEN code ELSE 0,
     has_msg |-> has_msg, data |-> data]

LoginData ==
    {NoData, DataNull, DataStr, DataObj(FALSE, PyNone, FALSE)}
        \cup {DataObj(TRUE, v, FALSE) : v \in TokenValues}

NoBody == Body(FALSE, 0, FALSE, NoData)

NoResp == [status |-> 0, body |-> NoBody]

Resp(status, body) == [status |-> status, body |-> body]

\* the bodies sent with a status other than 200: an error envelope, or an
\* envelope that reads like a success
ErrorBodies ==
    {Body(TRUE, 500, m, NoData) : m \in BOOLEAN}
        \cup {Body(TRUE, 200, m, DataObj(TRUE, PyStr(TokA), TRUE)) : m \in BOOLEAN}

ErrorResponses == {Resp(st, b) : st \in Statuses \ {200}, b \in ErrorBodies}

LoginBodies == {Body(TRUE, 200, m, d) : m \in BOOLEAN, d \in LoginData}

LoginResponses == {Resp(200, b) : b \in LoginBodies} \cup ErrorResponses

ResourceData ==
    {NoData, DataNull, DataObj(FALSE, PyNone, TRUE), DataObj(FALSE, PyNone, FALSE),
     DataList(TRUE)}

ResourceBodies ==
    {Body(TRUE, c, m, d) : c \in {200, 500}, m \in BOOLEAN, d \in ResourceData}
        \cup {Body(FALSE, 0, m, d) : m \in BOOLEAN, d \in ResourceData}

ResourceResponses == {Resp(200, b) : b \in ResourceBodies} \cup ErrorResponses

LogoutResponses ==
    {Resp(200, Body(TRUE, 200, m, NoData)) : m \in BOOLEAN} \cup ErrorResponses

\* response.json().get("message", "Unknown error")
MessageOf(body) == IF body.has_msg THEN "boom" ELSE "Unknown error"

\* ------------------------------------------------------- outcomes
Returned == [exc |-> "none", status |-> 0, msg |-> ""]

Raise(exc, status, msg) == [exc |-> exc, status |-> status, msg |-> msg]

\* response.json()["data"]["token"]: the value, or the exception raised
DataTokenLookup(body) ==
    IF body.data.kind = "absent" THEN [err |-> "KeyError", value |-> PyNone]
    ELSE IF body.data.kind # "obj" THEN [err |-> "TypeError", value |-> PyNone]
    ELSE IF ~body.data.has_token THEN [err |-> "KeyError", value |-> PyNone]
    ELSE [err |-> "none", value |-> body.data.token]

\* ------------------------------------------------------- Authentication
\* a login that treats 403 like any other unexpected status
LoginStatusNo403(resp) ==
    IF resp.status # 200
    THEN Raise("UnexceptedResponseCode", resp.status, MessageOf(resp.body))
    ELSE Returned

\* Authentication.login, the status branch after the awaited POST
LoginStatus(resp) ==
    IF resp.status = 403 THEN Raise("AuthenticationFailed", 0, MessageOf(resp.body))
    ELSE IF resp.status # 200
    THEN Raise("UnexceptedResponseCode", resp.status, MessageOf(resp.body))
    ELSE Returned

\* a login that reads the token and does not assign it to the context
LoginAssignLocal(body) ==
    LET r == DataTokenLookup(body)
    IN IF r.err = "none"
       THEN [out |-> Returned, store |-> FALSE, value |-> PyNone]
       ELSE [out |-> Raise("BadResponse", 0, MessageOf(body)),
             store |-> FALSE, value |-> PyNone]

\* Authentication.login, the try block: the outcome, and whether and what
\* it assigns to context.auth_token
LoginAssign(body) ==
    LET r == DataTokenLookup(body)
    IN IF r.err = "none"
       THEN [out |-> Returned, store |-> TRUE, value |-> r.value]
       ELSE [out |-> Raise("BadResponse", 0, MessageOf(body)),
             store |-> FALSE, value |-> PyNone]

\* a login that forgets the held token when the status check fails
LoginHandleClears(resp) ==
    IF LoginStatus(resp).exc # "none"
    THEN [out |-> LoginStatus(resp), store |-> TRUE, value |-> PyNone]
    ELSE LoginAssign(resp.body)

\* Authentication.login after the awaited POST
LoginHandle(resp) ==
    IF LoginStatus(resp).exc # "none"
    THEN [out |-> LoginStatus(resp), store |-> FALSE, value |-> PyNone]
    ELSE LoginAssign(resp.body)

\* a logout that does not look at the expiry of its token
LogoutPrecheckNoExpiry(token, t) ==
    IF ~Truthy(token) THEN "return"
    ELSE IF ~decode_token(token).ok THEN "raise"
    ELSE "send"

\* Authentication.logout before the awaited GET: "return" (no request),
\* "raise" (decode_token failed) or "send"
LogoutPrecheck(token, t) ==
    IF ~Truthy(token) THEN "return"
    ELSE IF ~decode_token(token).ok THEN "raise"
    ELSE IF t > decode_token(token).exp THEN "return"
    ELSE "send"

\* a logout with no branch for 401
LogoutHandleNo401(resp) ==
    IF resp.status # 200
    THEN Raise("UnexceptedResponseCode", resp.status, MessageOf(resp.body))
    ELSE Returned

\* Authentication.logout after the awaited GET
LogoutHandle(resp) ==
    IF resp.status = 401 THEN Raise("AuthenticationFailed", 0, "Unauthorized")
    ELSE IF resp.status # 200
    THEN Raise("UnexceptedResponseCode", resp.status, MessageOf(resp.body))
    ELSE Returned

\* ------------------------------------------------------- UserMe, MySSHKey
\* a status branch that takes 403 for an authentication failure as well
StatusCheck403(resp) ==
    IF resp.status \in {401, 403} THEN Raise("AuthenticationFailed", 0, "Unauthorized")
    ELSE IF resp.status # 200
    THEN Raise("UnexceptedResponseCode", resp.status, MessageOf(resp.body))
    ELSE Returned

\* the status branch every method of admin.py starts with
StatusCheck(resp) ==
    IF resp.status = 401 THEN Raise("AuthenticationFailed", 0, "Unauthorized")
    ELSE IF resp.status # 200
    THEN Raise("UnexceptedResponseCode", resp.status, MessageOf(resp.body))
    ELSE Returned

\* UserInfo(**response_data["data"]) inside try / except (KeyError, TypeError)
UserInfoOf(body) ==
    IF body.data.kind = "absent" THEN Raise("BadResponse", 0, MessageOf(body))
    ELSE IF body.data.kind # "obj" THEN Raise("BadResponse", 0, MessageOf(body))
    ELSE IF ~body.data.fields_ok THEN Raise("ValidationError", 0, "")
    ELSE Returned

\* UserMe.me after the GET
MeHandle(resp) ==
    IF StatusCheck(resp).exc # "none" THEN StatusCheck(resp)
    ELSE IF ~resp.body.has_code THEN Raise("BadResponse", 0, MessageOf(resp.body))
    ELSE IF resp.body.code # 200 THEN Raise("BadResponse", 0, MessageOf(resp.body))
    ELSE UserInfoOf(resp.body)

\* a handler that does not compare the envelope code with 200
CodeHandleAnyCode(resp) ==
    IF StatusCheck(resp).exc # "none" THEN StatusCheck(resp)
    ELSE IF ~resp.body.has_code THEN Raise("KeyError", 0, "code")
    ELSE Returned

\* UserMe.update, MySSHKey.add, MySSHKey.delete after the POST
CodeHandle(resp) ==
    IF StatusCheck(resp).exc # "none" THEN StatusCheck(resp)
    ELSE IF ~resp.body.has_code THEN Raise("KeyError", 0, "code")
    ELSE IF resp.body.code # 200 THEN Raise("BadResponse", 0, MessageOf(resp.body))
    ELSE Returned

\* [SSHKey(**item) for item in response_data["data"]] inside try / except
SSHKeysOf(body) ==
    IF body.data.kind = "absent" THEN Raise("BadResponse", 0, MessageOf(body))
    ELSE IF body.data.kind # "list" THEN Raise("BadResponse", 0, MessageOf(body))
    ELSE IF ~body.data.fields_ok THEN Raise("ValidationError", 0, "")
    ELSE Returned

\* MySSHKey.list after the GET
ListHandle(resp) ==
    IF CodeHandle(resp).exc # "none" THEN CodeHandle(resp)
    ELSE SSHKeysOf(resp.body)

\* the handler of each blocking operation
SyncOps == {"me", "update", "sshkey.add", "sshkey.delete", "sshkey.list"}

HandleOf(op, resp) ==
    IF op = "me" THEN MeHandle(resp)
    ELSE IF op = "sshkey.list" THEN ListHandle(resp)
    ELSE CodeHandle(resp)

\* headers={"Authorization": self.context.auth_token}: the HTTP client
\* rejects a header value that is not a string before anything is sent
HeaderCheck(token) ==
    IF token.isnone THEN Raise("TypeError", 0, "Header value must be str or bytes")
    ELSE Returned

\* username or decode_token(self.context.auth_token).username
UpdatePayload(username_given, token) ==
    IF username_given THEN Returned
    ELSE IF decode_token(token).ok THEN Returned
    ELSE Raise("MalformedToken", 0, "")

\* ------------------------------------------------------- character strings
\* s.rfind(c) + 1: the position of the last c in s, 0 when there is none
RECURSIVE RFind(_, _)
RFind(s, c) ==
    IF s = <<>> THEN 0
    ELSE IF s[Len(s)] = c THEN Len(s)
    ELSE RFind(SubSeq(s, 1, Len(s) - 1), c)

\* s.rstrip("/")
RECURSIVE RStripSlash(_)
RStripSlash(s) ==
    IF s # <<>> /\ s[Len(s)] = "/" THEN RStripSlash(SubSeq(s, 1, Len(s) - 1))
    ELSE s

\* s == "/" * len(s)
AllSlashes(s) == \A i \in 1..Len(s) : s[i] = "/"

\* sub in s
Contains(s, sub) ==
    \E i \in 0..(Len(s) - Len(sub)) : SubSeq(s, i + 1, i + Len(sub)) = sub

\* the letters that occur in upper case in the messages used here
LowerChar(c) == IF c = "A" THEN "a" ELSE IF c = "U" THEN "u" ELSE c

\* s.lower()
Lower(s) == [i \in 1..Len(s) |-> LowerChar(s[i])]

\* ------------------------------------------------------- posixpath
\* posixpath.basename(p): p[p.rfind("/") + 1:]
basename(p) == SubSeq(p, RFind(p, "/") + 1, Len(p))

\* posixpath.dirname(p): the head up to the last slash, its trailing
\* slashes stripped unless it consists of slashes only
dirname(p) ==
    LET head == SubSeq(p, 1, RFind(p, "/"))
    IN IF head # <<>> /\ ~AllSlashes(head) THEN RStripSlash(head) ELSE head

\* posixpath.join(a, b)
join(a, b) ==
    IF b # <<>> /\ b[1] = "/" THEN b
    ELSE IF a = <<>> \/ a[Len(a)] = "/" THEN a \o b
    ELSE a \o <<"/">> \o b

\* ------------------------------------------------------- FileSystem
\* message texts of the envelope
MsgExists == <<"f", "i", "l", "e", " ", "e", "x", "i", "s", "t", "s">>

MsgAlready == <<"A", "l", "r", "e", "a", "d", "y", " ", "t", "h", "e", "r", "e">>

MsgNoParent == <<"p", "a", "r", "e", "n", "t", " ", "d", "o", "e", "s", " ", "n", "o", "t", " ", "e", "x", "i", "s", "t">>

MsgDenied == <<"d", "e", "n", "i", "e", "d">>

\* the message used when the body has none
GenericMessage == <<"U", "n", "k", "n", "o", "w", "n", " ", "e", "r", "r", "o", "r">>

Messages == {MsgExists, MsgAlready, MsgNoParent, MsgDenied}

\* a response to a filesystem request: status, envelope, and the text of
\* the envelope's message member
FsResp(status, body, text) == [status |-> status, body |-> body, text |-> text]

\* no response: the request failed in transport
NoFsResp == FsResp(0, NoBody, <<>>)

FsData == {NoData, DataObj(FALSE, PyNone, TRUE), DataObj(FALSE, PyNone, FALSE)}

FsResponses ==
    {FsResp(200, Body(TRUE, 200, FALSE, d), <<>>) : d \in FsData}
        \cup {FsResp(200, Body(FALSE, 0, FALSE, DataObj(FALSE, PyNone, TRUE)), <<>>)}
        \cup {FsResp(200, Body(TRUE, 500, TRUE, NoData), m) : m \in Messages}
        \cup {FsResp(200, Body(TRUE, 500, FALSE, NoData), <<>>)}
        \cup {FsResp(st, Body(TRUE, 500, TRUE, NoData), MsgDenied) : st \in Statuses \ {200}}

\* the message member of the body, or the generic message
FsMessageOf(resp) == IF resp.body.has_msg THEN resp.text ELSE GenericMessage

\* the request failed in transport: the failure surfaces
TransportFailure == Raise("TransportError", 0, <<>>)

\* BaseService._post, the interpretation of the response
Dispatch(resp) ==
    IF resp.status = 401 THEN Raise("AuthenticationFailed", 0, FsMessageOf(resp))
    ELSE IF resp.status # 200
    THEN Raise("UnexceptedResponseCode", resp.status, FsMessageOf(resp))
    ELSE IF ~resp.body.has_code \/ resp.body.data.kind = "absent"
    THEN Raise("BadResponse", 0, FsMessageOf(resp))
    ELSE IF resp.body.code # 200 THEN Raise("BadResponse", 0, FsMessageOf(resp))
    ELSE Returned

\* the outcome of await self._post(...)
PostOutcome(resp) == IF resp = NoFsResp THEN TransportFailure ELSE Dispatch(resp)

\* FsObject(**data) and FsListResult(...) on the data of the response
FsObjectOf(resp) ==
    IF resp.body.data.kind = "obj" /\ resp.body.data.fields_ok THEN Returned
    ELSE Raise("ValidationError", 0, <<>>)

\* the same test on the message as it is, without lower()
SaysExistsCased(msg) ==
    \/ Contains(msg, <<"e", "x", "i", "s", "t">>)
    \/ Contains(msg, <<"a", "l", "r", "e", "a", "d", "y">>)

\* "exist" in str(e).lower() or "already" in str(e).lower()
SaysExists(msg) ==
    \/ Contains(Lower(msg), <<"e", "x", "i", "s", "t">>)
    \/ Contains(Lower(msg), <<"a", "l", "r", "e", "a", "d", "y">>)

\* a makedirs that sends its request again when the first one failed
MakedirsHandleRetry(out, exist_ok) ==
    IF out.exc = "BadResponse" /\ exist_ok /\ SaysExists(out.msg)
    THEN [out |-> Returned, again |-> FALSE]
    ELSE [out |-> out, again |-> out.exc # "none"]

\* FileSystem.makedirs around its one await self._post: the outcome, and
\* whether it sends a request again (there is no loop: it never does)
MakedirsHandle(out, exist_ok) ==
    IF out.exc = "BadResponse" /\ exist_ok /\ SaysExists(out.msg)
    THEN [out |-> Returned, again |-> FALSE]
    ELSE [out |-> out, again |-> FALSE]

\* a filesystem call and its arguments
Call(op, path, names, dst, exist_ok) ==
    [op |-> op, path |-> path, names |-> names, dst |-> dst, exist_ok |-> exist_ok]

\* a remove that sends the path it was given as the directory
RemovePayloadWhole(path, names) ==
    IF names # <<>> THEN [dir |-> path, names |-> names]
    ELSE [dir |-> path, names |-> <<basename(path)>>]

\* FileSystem.remove: the payload
RemovePayload(path, names) ==
    IF names # <<>> THEN [dir |-> path, names |-> names]
    ELSE [dir |-> dirname(path), names |-> <<basename(path)>>]

\* a rename that sends dst as it is
RenamePayloadVerbatim(src, dst) == [path |-> src, name |-> dst]

\* FileSystem.rename: the payload
RenamePayload(src, dst) ==
    [path |-> src, name |-> IF Contains(dst, <<"/">>) THEN basename(dst) ELSE dst]

\* FileSystem.batch_rename: the payload (rename_pairs as tuples)
BatchRenamePayload(dir_path, pairs) ==
    [src_dir |-> dir_path,
     rename_objects |-> [i \in 1..Len(pairs) |->
                            [src_name |-> pairs[i][1], new_name |-> pairs[i][2]]]]

\* the JSON body each method posts
Payload(c) ==
    IF c.op = "remove" THEN RemovePayload(c.path, c.names)
    ELSE IF c.op = "rename" THEN RenamePayload(c.path, c.dst)
    ELSE IF c.op = "batch_rename" THEN BatchRenamePayload(c.path, c.names)
    ELSE IF c.op = "listdir"
    THEN [path |-> c.path, refresh |-> FALSE, page |-> 1, per_page |-> 30]
    ELSE [path |-> c.path]

\* each method after its await self._post
FsHandle(c, resp) ==
    LET o == PostOutcome(resp)
    IN IF c.op = "makedirs" THEN MakedirsHandle(o, c.exist_ok)
       ELSE IF c.op \in {"listdir", "info"}
       THEN [out |-> IF o.exc # "none" THEN o ELSE FsObjectOf(resp), again |-> FALSE]
       ELSE [out |-> o, again |-> FALSE]

FsOps == {"listdir", "info", "remove", "rename", "batch_rename", "makedirs"}

\* the arguments: paths over three characters, names of at most one
\* character other than the slash, lists of names
PathChars == {"/", "a", "b"}

Paths == UNION {[1..n -> PathChars] : n \in 0..MaxPathLen}

NameArgs == {p \in Paths : Len(p) <= 1 /\ p # <<"/">>}

NameLists == UNION {[1..k -> NameArgs] : k \in 0..MaxNames}

SrcPaths == {<<"/", "a">>, <<"b">>}

RemoveCalls == {Call("remove", p, ns, <<>>, FALSE) : p \in Paths, ns \in NameLists}

RenameCalls == {Call("rename", s, <<>>, d, FALSE) : s \in SrcPaths, d \in Paths}

MakedirsCalls == {Call("makedirs", p, <<>>, <<>>, e) : p \in SrcPaths, e \in BOOLEAN}

ReadCalls == {Call(op, <<"/", "a">>, <<>>, <<>>, FALSE) : op \in {"listdir", "info"}}

BatchRenameCalls == {Call("batch_rename", <<"/", "a">>, <<<<<<"a">>, <<"b">>>>>>, <<>>, FALSE)}

FsCalls == RemoveCalls \cup RenameCalls \cup MakedirsCalls \cup ReadCalls \cup BatchRenameCalls

\* one call of each method, makedirs with both values of exist_ok
FsProbes ==
    {Call("remove", <<"/", "a">>, <<>>, <<>>, FALSE),
     Call("rename", <<"/", "a">>, <<>>, <<"b">>, FALSE)}
        \cup {c \in MakedirsCalls : c.path = <<"b">>} \cup ReadCalls \cup BatchRenameCalls

\* ------------------------------------------------------------- state
VARIABLES
    auth_token,    \* context.auth_token
    now,           \* time.time()
    pc,            \* per task: "idle", "login" or "logout" (awaiting the response)
    req,           \* per task: the Authorization header of the request in flight
    last,          \* the operation that completed most recently
    argv,          \* the filesystem call the caller makes
    phase,         \* the Client: "live", "cleaned" (Cli._cleanup ran),
                   \* "finalized" (__del__ ran) or "exited" (never finalized)
    httpx_client,  \* context.httpx_client: "open" or "closed"
    closes,        \* the number of calls of httpx_client.close()
    running,       \* Cli._running
    loop,          \* Cli.start: "new" (not called), "prompt" (in the while
                   \* loop), "cleanup" (past the loop), "returned", or
                   \* "crashed" (an exception left start)
    console        \* what the shell printed last

vars == <<auth_token, now, pc, req, last, argv, phase, httpx_client, closes,
          running, loop, console>>

\* the interactive shell
cli == <<running, loop, console>>

\* what the session operations leave alone
rest == <<argv, phase, httpx_client, closes, cli>>

\* the record of a completed operation: the response it got (NoResp when it
\* sent nothing), its outcome, the token held just before it completed, the
\* number of requests it sent, the Authorization header it sent and, for a
\* login, the time at which it completed (0 for the others)
Done(op, resp, out, pre, sent, authz) ==
    [op |-> op, resp |-> resp, out |-> out, pre |-> pre, sent |-> sent,
     authz |-> authz, at |-> 0]

\* a line on the console: what kind of line, and for an error line the
\* exception it reports
Line(kind, out) == [line |-> kind, out |-> out]

\* no filesystem call
NoCall == [op |-> "none", path |-> <<>>, names |-> <<>>, dst |-> <<>>, exist_ok |-> FALSE]

\* Client.__init__: auth_token=None, httpx_client=httpx.Client(...)
Init ==
    /\ auth_token = PyNone
    /\ now = 0
    /\ pc = [t \in Tasks |-> "idle"]
    /\ req = [t \in Tasks |-> PyNone]
    /\ last = Done("init", NoResp, Returned, PyNone, 0, PyNone)
    /\ argv = NoCall
    /\ phase = "live"
    /\ httpx_client = "open"
    /\ closes = 0
    /\ running = FALSE
    /\ loop = "new"
    /\ console = Line("none", Returned)

\* the clock advances
Tick ==
    /\ now < MaxTime
    /\ now' = now + 1
    /\ UNCHANGED <<auth_token, pc, req, last, rest>>

\* Authentication.login up to the awaited POST /api/auth/login/hash (the
\* request carries the hashed password and no Authorization header)
LoginSend(t) ==
    /\ pc[t] = "idle"
    /\ pc' = [pc EXCEPT ![t] = "login"]
    /\ req' = [req EXCEPT ![t] = PyNone]
    /\ UNCHANGED <<auth_token, now, last, rest>>

\* Authentication.login from the response on
LoginRecv(t) ==
    /\ pc[t] = "login"
    /\ \E resp \in LoginResponses :
         LET h == LoginHandle(resp)
         IN /\ auth_token' = IF h.store THEN h.value ELSE auth_token
            /\ last' = [Done("login", resp, h.out, auth_token, 1, PyNone)
                          EXCEPT !.at = now]
    /\ pc' = [pc EXCEPT ![t] = "idle"]
    /\ UNCHANGED <<now, req, rest>>

\* Authentication.logout up to the awaited GET /api/auth/logout, or to its
\* early return
LogoutCall(t) ==
    /\ pc[t] = "idle"
    /\ LET c == LogoutPrecheck(auth_token, now)
       IN IF c = "send"
          THEN /\ pc' = [pc EXCEPT ![t] = "logout"]
               /\ req' = [req EXCEPT ![t] = auth_token]
               /\ UNCHANGED last
          ELSE /\ last' = Done("logout", NoResp,
                               IF c = "raise" THEN Raise("MalformedToken", 0, "")
                               ELSE Returned,
                               auth_token, 0, PyNone)
               /\ UNCHANGED <<pc, req>>
    /\ UNCHANGED <<auth_token, now, rest>>

\* Authentication.logout from the response on
LogoutRecv(t) ==
    /\ pc[t] = "logout"
    /\ \E resp \in LogoutResponses :
         last' = Done("logout", resp, LogoutHandle(resp), auth_token, 1, req[t])
    /\ pc' = [pc EXCEPT ![t] = "idle"]
    /\ req' = [req EXCEPT ![t] = PyNone]
    /\ UNCHANGED <<auth_token, now, rest>>

\* Client.login: self.auth.login(...) builds a coroutine that nothing
\* awaits, so no request is sent and nothing is stored; returns self
ClientLogin(t) ==
    /\ pc[t] = "idle"
    /\ last' = Done("Client.login", NoResp, Returned, auth_token, 0, PyNone)
    /\ UNCHANGED <<auth_token, now, pc, req, rest>>

\* the value Client.logout assigns to context.auth_token
ClientLogoutToken == PyNone

\* Client.logout: self.auth.logout() builds a coroutine that nothing
\* awaits; then self.context.auth_token = None
ClientLogout(t) ==
    /\ pc[t] = "idle"
    /\ auth_token' = ClientLogoutToken
    /\ last' = Done("Client.logout", NoResp, Returned, auth_token, 0, PyNone)
    /\ UNCHANGED <<now, pc, req, rest>>

\* a blocking call that drops the token when the server answers 401
SyncCallDrops(t, op) ==
    /\ pc[t] = "idle"
    /\ \E given \in BOOLEAN :
         LET pre == IF op = "update" THEN UpdatePayload(given, auth_token) ELSE Returned
             hdr == HeaderCheck(auth_token)
         IN IF pre.exc # "none"
            THEN last' = Done(op, NoResp, pre, auth_token, 0, PyNone) /\ UNCHANGED auth_token
            ELSE IF hdr.exc # "none"
            THEN last' = Done(op, NoResp, hdr, auth_token, 0, PyNone) /\ UNCHANGED auth_token
            ELSE \E resp \in ResourceResponses :
                   /\ last' = Done(op, resp, HandleOf(op, resp), auth_token, 1, auth_token)
                   /\ auth_token' = IF resp.status = 401 THEN PyNone ELSE auth_token
    /\ UNCHANGED <<now, pc, req, rest>>

\* a blocking call of UserMe or MySSHKey: payload, request, response
SyncCall(t, op) ==
    /\ pc[t] = "idle"
    /\ \E given \in BOOLEAN :
         LET pre == IF op = "update" THEN UpdatePayload(given, auth_token) ELSE Returned
             hdr == HeaderCheck(auth_token)
         IN IF pre.exc # "none"
            THEN last' = Done(op, NoResp, pre, auth_token, 0, PyNone)
            ELSE IF hdr.exc # "none"
            THEN last' = Done(op, NoResp, hdr, auth_token, 0, PyNone)
            ELSE \E resp \in ResourceResponses :
                   last' = Done(op, resp, HandleOf(op, resp), auth_token, 1, auth_token)
    /\ UNCHANGED <<auth_token, now, pc, req, rest>>

\* the record of a completed filesystem call: as Done, with the call and
\* the payload it posted
FsDone(c, resp, out, pre, sent, authz) ==
    [op |-> c.op, resp |-> resp, out |-> out, pre |-> pre, sent |-> sent,
     authz |-> authz, at |-> 0, call |-> c, payload |-> Payload(c)]

\* a call of a FileSystem method: payload, await self._post (which attaches
\* the token held when the request is built), the rest of the method.  The
\* method touches nothing shared after its await, so the call is one step
\* at the point where the request is issued
FsCall(t, c) ==
    /\ pc[t] = "idle"
    /\ \E resp \in FsResponses \cup {NoFsResp} :
         LET h == FsHandle(c, resp)
         IN last' = FsDone(c, resp, h.out, auth_token,
                           IF h.again THEN 2 ELSE 1, auth_token)
    /\ UNCHANGED <<auth_token, now, pc, req, rest>>

\* the session: login and logout at both layers, and the clock
Next ==
    \/ Tick
    \/ \E t \in Tasks : LoginSend(t)
    \/ \E t \in Tasks : LoginRecv(t)
    \/ \E t \in Tasks : LogoutCall(t)
    \/ \E t \in Tasks : LogoutRecv(t)
    \/ \E t \in Tasks : ClientLogin(t)
    \/ \E t \in Tasks : ClientLogout(t)

Spec == Init /\ [][Next]_vars

\* the authenticated calls of UserMe, MySSHKey and FileSystem, with the
\* logins and logouts that change the token they attach
NextCalls ==
    \/ \E t \in Tasks : LoginSend(t)
    \/ \E t \in Tasks : LoginRecv(t)
    \/ \E t \in Tasks : ClientLogout(t)
    \/ \E t \in Tasks, op \in SyncOps : SyncCall(t, op)
    \/ \E t \in Tasks, c \in FsProbes : FsCall(t, c)

SpecCalls == Init /\ [][NextCalls]_vars

\* the awaited POST of a login fails in transport: nothing in
\* Authentication.login catches it
LoginFail(t) ==
    /\ pc[t] = "login"
    /\ last' = [Done("login", NoResp, Raise("TransportError", 0, ""), auth_token, 1, PyNone)
                  EXCEPT !.at = now]
    /\ pc' = [pc EXCEPT ![t] = "idle"]
    /\ UNCHANGED <<auth_token, now, req, rest>>

\* the awaited GET of a logout fails in transport
LogoutFail(t) ==
    /\ pc[t] = "logout"
    /\ last' = Done("logout", NoResp, Raise("TransportError", 0, ""), auth_token, 1, req[t])
    /\ pc' = [pc EXCEPT ![t] = "idle"]
    /\ req' = [req EXCEPT ![t] = PyNone]
    /\ UNCHANGED <<auth_token, now, rest>>

\* the request of a blocking call fails in transport
SyncFail(t, op) ==
    /\ pc[t] = "idle"
    /\ HeaderCheck(auth_token).exc = "none"
    /\ \E given \in BOOLEAN :
         /\ op = "update" => UpdatePayload(given, auth_token).exc = "none"
         /\ last' = Done(op, NoResp, Raise("TransportError", 0, ""), auth_token, 1, auth_token)
    /\ UNCHANGED <<auth_token, now, pc, req, rest>>

\* the requests on the wire: logins and logouts of Authentication,
\* Client.logout, UserMe.me and the FileSystem methods, each with the
\* transport failure of its request
NextWire ==
    \/ \E t \in Tasks : LoginSend(t)
    \/ \E t \in Tasks : LoginRecv(t)
    \/ \E t \in Tasks : LoginFail(t)
    \/ \E t \in Tasks : LogoutCall(t)
    \/ \E t \in Tasks : LogoutRecv(t)
    \/ \E t \in Tasks : LogoutFail(t)
    \/ \E t \in Tasks : ClientLogout(t)
    \/ \E t \in Tasks : SyncCall(t, "me")
    \/ \E t \in Tasks : SyncFail(t, "me")
    \/ \E t \in Tasks, c \in FsProbes : FsCall(t, c)

SpecWire == Init /\ [][NextWire]_vars

\* httpx.Client.close(): closing a client that is closed already changes
\* nothing and raises nothing
HttpxClose(state) == "closed"

\* Client.__del__, run when the Client is collected or, for one that is
\* still referenced at interpreter exit, when the interpreter finalizes it:
\* self.logout(), then self.context.httpx_client.close()
ClientDel ==
    /\ phase \in {"live", "cleaned"}
    /\ \A t \in Tasks : pc[t] = "idle"
    /\ auth_token' = ClientLogoutToken
    /\ last' = Done("Client.__del__", NoResp, Returned, auth_token, 0, PyNone)
    /\ httpx_client' = HttpxClose(httpx_client)
    /\ closes' = closes + 1
    /\ phase' = "finalized"
    /\ UNCHANGED <<now, pc, req, argv, cli>>

\* Cli._cleanup after the loop of Cli.start: context.client.close() names
\* an attribute Client does not have, the AttributeError is swallowed by
\* except Exception, and the pending tasks are cancelled
CliCleanup ==
    /\ phase = "live"
    /\ pc' = [t \in Tasks |-> "idle"]
    /\ req' = [t \in Tasks |-> PyNone]
    /\ last' = Done("Cli._cleanup", NoResp, Returned, auth_token, 0, PyNone)
    /\ phase' = "cleaned"
    /\ UNCHANGED <<auth_token, now, argv, httpx_client, closes>>

\* the interpreter exits without finalizing the Client that context.client
\* still references (Python does not promise to call __del__ then)
InterpreterExit ==
    /\ phase = "cleaned"
    /\ phase' = "exited"
    /\ UNCHANGED <<auth_token, now, pc, req, last, argv, httpx_client, closes, cli>>

\* the life of a Client: the session while it is live, then its teardown
NextTeardown ==
    \/ phase = "live" /\ Tick
    \/ \E t \in Tasks : phase = "live" /\ LoginSend(t)
    \/ \E t \in Tasks : phase = "live" /\ LoginRecv(t)
    \/ \E t \in Tasks : phase = "live" /\ LogoutCall(t)
    \/ \E t \in Tasks : phase = "live" /\ LogoutRecv(t)
    \/ \E t \in Tasks : phase = "live" /\ ClientLogout(t)
    \/ ClientDel
    \/ CliCleanup /\ UNCHANGED cli
    \/ InterpreterExit

SpecTeardown == Init /\ [][NextTeardown]_vars

\* the FileSystem methods, each applied to the arguments of one caller
InitFs ==
    /\ auth_token = PyNone
    /\ now = 0
    /\ pc = [t \in Tasks |-> "idle"]
    /\ req = [t \in Tasks |-> PyNone]
    /\ last = Done("init", NoResp, Returned, PyNone, 0, PyNone)
    /\ argv \in FsCalls
    /\ phase = "live"
    /\ httpx_client = "open"
    /\ closes = 0
    /\ running = FALSE
    /\ loop = "new"
    /\ console = Line("none", Returned)

NextFs == \E t \in Tasks : FsCall(t, argv)

SpecFs == InitFs /\ [][NextFs]_vars

\* ------------------------------------------------- the interactive shell
\* the exceptions that derive from BaseException and not from Exception
BaseOnly == {"SystemExit", "KeyboardInterrupt"}

\* isinstance(e, Exception): the errors of the core, httpx's transport
\* errors and the built-in errors all derive from Exception
IsException(exc) == exc # "none" /\ exc \notin BaseOnly

\* a shell whose _execute_command catches SystemExit and nothing else
ExecuteCatchNarrow(out) ==
    IF out.exc = "none" THEN "returned"
    ELSE IF out.exc = "SystemExit" THEN "pass"
    ELSE "propagate"

\* Cli._execute_command, the try around self.app(args): "returned",
\* "pass" (except SystemExit), "print" (except Exception) or "propagate"
ExecuteCatch(out) ==
    IF out.exc = "none" THEN "returned"
    ELSE IF out.exc = "SystemExit" THEN "pass"
    ELSE IF IsException(out.exc) THEN "print"
    ELSE "propagate"

\* Cli.start, the except clauses of the loop body: "continue"
\* (KeyboardInterrupt), "break" (EOFError) or "raise"
StartCatch(exc) ==
    IF exc = "KeyboardInterrupt" THEN "continue"
    ELSE IF exc = "EOFError" THEN "break"
    ELSE "raise"

\* Cli.start, the loop body left by exception exc: ^C and the next prompt,
\* the farewell and the end of the loop, or the exception leaves start
StartAfter(exc) ==
    LET w == StartCatch(exc)
    IN /\ loop' = IF w = "continue" THEN "prompt"
                  ELSE IF w = "break" THEN "cleanup" ELSE "crashed"
       /\ console' = IF w = "continue" THEN Line("interrupt", Returned)
                     ELSE IF w = "break" THEN Line("bye", Returned) ELSE console
       /\ UNCHANGED running

\* Cli._execute_command and the rest of the loop body when the command
\* that self.app(args) ran ended with outcome out
ShellAfter(out) ==
    LET v == ExecuteCatch(out)
    IN IF v = "propagate" THEN StartAfter(out.exc)
       ELSE /\ loop' = "prompt"
            /\ console' = IF v = "print" THEN Line("error", out) ELSE console
            /\ UNCHANGED running

\* Cli.start up to the first prompt
ShellStart ==
    /\ loop = "new"
    /\ running' = TRUE
    /\ loop' = "prompt"
    /\ console' = Line("welcome", Returned)
    /\ UNCHANGED <<auth_token, now, pc, req, last, argv, phase, httpx_client, closes>>

\* the lines the shell answers itself: the empty line and the built-in
\* commands clear, help and theme
Builtins == {"", "clear", "help", "theme"}

\* one turn of the loop on a line the shell answers itself
ShellBuiltin(text) ==
    /\ loop = "prompt"
    /\ console' = IF text = "" THEN console
                  ELSE IF text = "clear" THEN Line("none", Returned)
                  ELSE Line(text, Returned)
    /\ UNCHANGED <<auth_token, now, pc, req, last, argv, phase, httpx_client, closes,
                   running, loop>>

\* one turn of the loop on the line exit: _running = False, and the loop
\* condition ends the loop
ShellExit ==
    /\ loop = "prompt"
    /\ running' = FALSE
    /\ loop' = "cleanup"
    /\ UNCHANGED <<auth_token, now, pc, req, last, argv, phase, httpx_client, closes,
                   console>>

\* the prompt is interrupted: Ctrl+C (KeyboardInterrupt) or Ctrl+D (EOFError)
PromptErrors == {"KeyboardInterrupt", "EOFError"}

\* one turn of the loop in which session.prompt raises
ShellPromptRaises(exc) ==
    /\ loop = "prompt"
    /\ StartAfter(exc)
    /\ UNCHANGED <<auth_token, now, pc, req, last, argv, phase, httpx_client, closes>>

\* one turn of the loop on a command that runs a FileSystem method with
\* run_async: the call completes inside the command, and what it raises
\* reaches _execute_command
ShellCommand(c) ==
    /\ loop = "prompt"
    /\ \E resp \in FsResponses \cup {NoFsResp} :
         LET h == FsHandle(c, resp)
         IN /\ last' = FsDone(c, resp, h.out, auth_token,
                              IF h.again THEN 2 ELSE 1, auth_token)
            /\ ShellAfter(h.out)
    /\ UNCHANGED <<auth_token, now, pc, req, argv, phase, httpx_client, closes>>

\* the commands of the package's own Typer application
Packaged == {"connect", "logout", "cd", "ls", "rm"}

\* what a command of the package raises: connect and logout hand the
\* Client that Client.login or Client.logout returns to run_async, which
\* rejects what is not awaitable; cd, ls and rm read context.client.fs,
\* which Client does not have
PackagedOutcome(cmd) ==
    IF cmd \in {"connect", "logout"} THEN Raise("TypeError", 0, "")
    ELSE Raise("AttributeError", 0, "")

\* one turn of the loop on a command of the package: connect builds a
\* Client (no token) and calls Client.login, logout calls Client.logout
ShellPackaged(cmd) ==
    /\ loop = "prompt"
    /\ IF cmd = "connect"
       THEN /\ auth_token' = PyNone
            /\ last' = Done("Client.login", NoResp, Returned, PyNone, 0, PyNone)
       ELSE IF cmd = "logout"
       THEN /\ auth_token' = ClientLogoutToken
            /\ last' = Done("Client.logout", NoResp, Returned, auth_token, 0, PyNone)
       ELSE UNCHANGED <<auth_token, last>>
    /\ ShellAfter(PackagedOutcome(cmd))
    /\ UNCHANGED <<now, pc, req, argv, phase, httpx_client, closes>>

\* one turn of the loop on a command that ends with sys.exit
ShellSystemExit ==
    /\ loop = "prompt"
    /\ ShellAfter(Raise("SystemExit", 0, ""))
    /\ UNCHANGED <<auth_token, now, pc, req, last, argv, phase, httpx_client, closes>>

\* Cli.start past the loop: self._cleanup(), then _running = False
ShellCleanup ==
    /\ loop = "cleanup"
    /\ CliCleanup
    /\ running' = FALSE
    /\ loop' = "returned"
    /\ UNCHANGED console

\* the shell from Cli.start to its return
NextShell ==
    \/ ShellStart
    \/ \E text \in Builtins : ShellBuiltin(text)
    \/ ShellExit
    \/ \E exc \in PromptErrors : ShellPromptRaises(exc)
    \/ \E c \in FsProbes : ShellCommand(c)
    \/ \E cmd \in Packaged : ShellPackaged(cmd)
    \/ ShellSystemExit
    \/ ShellCleanup

\* the statement after the loop runs once the loop has ended
SpecShell == Init /\ [][NextShell]_vars /\ WF_vars(ShellCleanup)

TypeOK ==
    /\ auth_token \in TokenValues
    /\ now \in Times
    /\ pc \in [Tasks -> {"idle", "login", "logout"}]
    /\ argv \in FsCalls \cup {NoCall}
    /\ phase \in {"live", "cleaned", "finalized", "exited"}
    /\ httpx_client \in {"open", "closed"}
    /\ closes \in {0, 1}
    /\ running \in BOOLEAN
    /\ loop \in {"new", "prompt", "cleanup", "returned", "crashed"}
    /\ console.line \in {"none", "welcome", "help", "theme", "error", "interrupt", "bye"}

\* ================================================================ claims
LogoutOps == {"logout", "Client.logout"}

\* the token decodes and its expiry is before t
Expired(tok, t) == decode_token(tok).ok /\ t > decode_token(tok).exp

\* the token decodes and its expiry is after t
FreshAt(tok, t) == decode_token(tok).ok /\ decode_token(tok).exp > t

\* task t sends its logout request in this step
LogoutSends(t) == pc[t] = "idle" /\ pc'[t] = "logout"

\* a call of Authentication.logout ends in this step without a request
LogoutEndsEarly == pc' = pc /\ last' # last /\ last'.op = "logout"

\* the response carries data.token
CarriesToken(resp) ==
    resp.status = 200 /\ resp.body.data.kind = "obj" /\ resp.body.data.has_token

\* C1: after a login answered 200 with data.token = T, T a string, the
\* login has returned and context.auth_token holds T, whatever was held
\* before
C1_LoginStoresToken ==
    (last.op = "login" /\ CarriesToken(last.resp)
        /\ ~last.resp.body.data.token.isnone)
    => (last.out = Returned /\ auth_token = last.resp.body.data.token
        /\ ~auth_token.isnone)

\* a re-login over TokA that was answered with TokB
C1_Witness ==
    /\ last.op = "login" /\ CarriesToken(last.resp)
    /\ last.pre = PyStr(TokA)
    /\ last.resp.body.data.token = PyStr(TokB)
    /\ auth_token = PyStr(TokB)

\* C2: context.auth_token is None or a token that decodes, and the token a
\* login has just stored has its expiry after the time of the assignment
C2_TokenWellFormedWhenSet ==
    /\ auth_token = PyNone \/ decode_token(auth_token).ok
    /\ (last.op = "login" /\ last.out = Returned) => FreshAt(auth_token, last.at)

\* C3: once a logout has returned without raising, no token is held
C3_LogoutClearsToken ==
    (last.op \in LogoutOps /\ last.out = Returned) => ~Truthy(auth_token)

\* C4: a logout called with auth_token None sends nothing, returns and
\* leaves auth_token None; and a logout that starts when the operation
\* completed last is a logout that returned sends no request
C4_LogoutWhenUnauthenticated ==
    /\ [](last.op \in LogoutOps /\ last.pre = PyNone
            => last.sent = 0 /\ last.out = Returned /\ auth_token = PyNone)
    /\ [][\A t \in Tasks :
            LogoutSends(t) => ~(last.op \in LogoutOps /\ last.out = Returned)]_vars

\* C5: while the held token's expiry is in the past no logout request is
\* sent, and a logout called then returns without raising
C5_ExpiredLogoutIsNoop ==
    [][/\ (\E t \in Tasks : LogoutSends(t))
            => ~(Truthy(auth_token) /\ Expired(auth_token, now))
       /\ (LogoutEndsEarly /\ Truthy(auth_token) /\ Expired(auth_token, now))
            => (last'.out = Returned /\ last'.sent = 0)]_vars

\* a logout that returned early although a decodable token was held
C5_Witness ==
    /\ last.op = "logout" /\ last.sent = 0 /\ last.out = Returned
    /\ Truthy(last.pre) /\ Expired(last.pre, now)

\* C6: a logout called with a held, unexpired token does not end early; the
\* request it sends carries the token held then; it sends one request, and
\* 401 raises AuthenticationFailed, any other status but 200
\* UnexceptedResponseCode with that status
C6_LogoutRequest ==
    [][/\ LogoutEndsEarly
            => ~(Truthy(auth_token) /\ decode_token(auth_token).ok
                 /\ ~Expired(auth_token, now))
       /\ \A t \in Tasks : LogoutSends(t) => req'[t] = auth_token
       /\ \A t \in Tasks :
            (pc[t] = "logout" /\ pc'[t] = "idle")
            => /\ last'.op = "logout" /\ last'.sent = 1 /\ last'.authz = req[t]
               /\ last'.resp.status = 401 => last'.out.exc = "AuthenticationFailed"
               /\ last'.resp.status \notin {200, 401}
                    => (last'.out.exc = "UnexceptedResponseCode"
                        /\ last'.out.status = last'.resp.status)]_vars

\* a logout that carried TokB and was answered 401
C6_Witness ==
    /\ last.op = "logout" /\ last.sent = 1 /\ last.authz = PyStr(TokB)
    /\ last.resp.status = 401 /\ last.out.exc = "AuthenticationFailed"

\* C7: a login answered 403 raises AuthenticationFailed, one answered with
\* another status but 200 raises UnexceptedResponseCode with that status,
\* and a login answered with a status other than 200 does not return
C7_LoginStatus ==
    last.op = "login"
    => /\ last.resp.status = 403 => last.out.exc = "AuthenticationFailed"
       /\ last.resp.status \notin {200, 403}
            => (last.out.exc = "UnexceptedResponseCode"
                /\ last.out.status = last.resp.status)
       /\ last.resp.status # 200 => last.out # Returned

\* a login answered 403 with a body that reads like a success
C7_Witness ==
    /\ last.op = "login" /\ last.resp.status = 403
    /\ last.resp.body.code = 200 /\ last.resp.body.data.has_token
    /\ last.out.exc = "AuthenticationFailed"

\* data.token is missing or is not a usable token
BadLoginData(body) ==
    \/ body.data.kind # "obj"
    \/ ~body.data.has_token
    \/ ~decode_token(body.data.token).ok

\* C8: a login answered 200 whose data.token is missing or malformed raises
\* BadResponse and leaves context.auth_token as it was
C8_LoginBadToken ==
    (last.op = "login" /\ last.resp.status = 200 /\ BadLoginData(last.resp.body))
    => (last.out.exc = "BadResponse" /\ auth_token = last.pre)

Success(resp) == resp.status = 200 /\ resp.body.has_code /\ resp.body.code = 200

\* C10 as stated: an authenticated call returns if and only if the response
\* is HTTP 200 with envelope code 200, and HTTP 200 with another code
\* raises BadResponse with the envelope message
C10_ReturnsIffSuccess ==
    (last.op \in SyncOps /\ last.sent = 1)
    => /\ (last.out = Returned) <=> Success(last.resp)
       /\ (last.resp.status = 200 /\ last.resp.body.has_code
             /\ last.resp.body.code # 200)
            => (last.out.exc = "BadResponse"
                /\ last.out.msg = MessageOf(last.resp.body))

\* C10 amended: an authenticated call returns only if the response is HTTP
\* 200 with envelope code 200, and update, sshkey.add and sshkey.delete
\* return whenever it is; HTTP 200 with another code raises BadResponse
\* with the envelope message
C10_ReturnsOnlyIfSuccess ==
    (last.op \in SyncOps /\ last.sent = 1)
    => /\ (last.out = Returned) => Success(last.resp)
       /\ (last.op \in {"update", "sshkey.add", "sshkey.delete"}
             /\ Success(last.resp)) => last.out = Returned
       /\ (last.resp.status = 200 /\ last.resp.body.has_code
             /\ last.resp.body.code # 200)
            => (last.out.exc = "BadResponse"
                /\ last.out.msg = MessageOf(last.resp.body))

\* me answered 200 with envelope code 200 and no data member: BadResponse
C10_Witness ==
    /\ last.op = "me" /\ Success(last.resp)
    /\ last.resp.body.data.kind = "absent"
    /\ last.out.exc = "BadResponse"

\* the body of an HTTP 200 response lacks the envelope's code or data member
LacksEnvelopeKey(resp) ==
    resp.status = 200 /\ (~resp.body.has_code \/ resp.body.data.kind = "absent")

\* C11: an authenticated call answered HTTP 200 with a body that lacks the
\* code or the data member raises BadResponse, and nothing else
C11_MissingKeyIsBadResponse ==
    (last.op \in SyncOps /\ last.sent = 1 /\ LacksEnvelopeKey(last.resp))
    => last.out.exc = "BadResponse"


\* a request with Authorization header h (PyNone: no header) is issued in
\* this step
IssuesRequest(h) ==
    \/ /\ last' # last /\ last'.op \in SyncOps \cup FsOps
       /\ last'.sent >= 1 /\ last'.authz = h
    \/ \E t \in Tasks : LogoutSends(t) /\ req'[t] = h

\* C12: a request carries the token held when it is issued, also while a
\* login is in flight; and once a logout has returned, or a login has
\* stored another token, no request issued next carries the token held
\* before
C12_RequestCarriesHeldToken ==
    [][\A h \in TokenValues :
         IssuesRequest(h)
         => /\ h = auth_token
            /\ (last.op \in LogoutOps /\ last.out = Returned /\ Truthy(last.pre))
                 => h # last.pre
            /\ (last.op = "login" /\ last.out = Returned /\ Truthy(last.pre)
                  /\ auth_token # last.pre)
                 => h # last.pre]_vars

\* a login completes in this step
LoginCompletes == \E t \in Tasks : pc[t] = "login" /\ pc'[t] = "idle"

\* C13: context.auth_token changes only in the step that completes a login
\* and in Client.logout: the calls of UserMe, MySSHKey and FileSystem leave
\* it as it was, whether they return or raise
C13_TokenFrame ==
    [][auth_token' # auth_token
         => (LoginCompletes \/ (last' # last /\ last'.op = "Client.logout"))]_vars

\* me was answered 401 and the token that was rejected is still held
C13_Witness ==
    /\ last.op = "me" /\ last.resp.status = 401
    /\ last.out.exc = "AuthenticationFailed"
    /\ auth_token = PyStr(TokA) /\ last.pre = PyStr(TokA)

\* C14: a call made while no token is held sends its request, without a
\* usable Authorization header, and its outcome is the one the response
\* decides
C14_UnauthenticatedCallIsSent ==
    (last.op \in SyncOps \cup FsOps /\ last.pre = PyNone)
    => /\ last.sent = 1
       /\ ~Truthy(last.authz)
       /\ last.op \in SyncOps => last.out = HandleOf(last.op, last.resp)
       /\ last.op \in FsOps => last.out = FsHandle(last.call, last.resp).out

\* the operations that talk to the server
WireOps == {"login", "logout", "me"} \cup FsOps

C16_ClosedExactlyOnce ==
    /\ closes <= 1
    /\ phase # "live" => (closes = 1 /\ httpx_client = "closed")

\* the messages that say that the path exists already
AlreadyExistsMessages == {MsgExists, MsgAlready}

\* the mkdir request of the makedirs that completed last failed with a
\* BadResponse
MkdirBadResponse ==
    last.op = "makedirs" /\ PostOutcome(last.resp).exc = "BadResponse"

\* C17: when the mkdir request fails with a BadResponse whose message says
\* that the path exists already, makedirs returns with exist_ok = True and
\* raises that BadResponse with exist_ok = False
C17_MakedirsExistOk ==
    (MkdirBadResponse /\ PostOutcome(last.resp).msg \in AlreadyExistsMessages)
    => IF last.call.exist_ok THEN last.out = Returned
       ELSE (last.out.exc = "BadResponse" /\ last.out = PostOutcome(last.resp))

\* makedirs(exist_ok=True) answered code 500, "Already there": returned
C17_Witness ==
    /\ last.op = "makedirs" /\ last.call.exist_ok
    /\ last.resp.status = 200 /\ last.resp.body.code = 500
    /\ last.resp.text = MsgAlready
    /\ last.out = Returned

\* C18: makedirs with exist_ok = True raises every error of its request but
\* the BadResponse whose message says that the path exists already
C18_MakedirsSwallowsNothingElse ==
    (last.op = "makedirs" /\ last.call.exist_ok
       /\ PostOutcome(last.resp).exc # "none"
       /\ ~(MkdirBadResponse /\ PostOutcome(last.resp).msg \in AlreadyExistsMessages))
    => last.out = PostOutcome(last.resp)

\* names: not empty, no slash
ProperNames == {n \in NameArgs : n # <<>> /\ ~Contains(n, <<"/">>)}

\* remove called with a directory and names
BatchRemove == last.op = "remove" /\ last.call.names # <<>>

\* remove called with one path
SingleRemove == last.op = "remove" /\ last.call.names = <<>>

\* a directory path that does not end with a slash, or the root
NormalDir(d) == d = <<>> \/ AllSlashes(d) \/ d[Len(d)] # "/"

\* C19 as stated: remove(d, n1, ..., nk) sends {dir: d, names: [n1, ..., nk]},
\* and for every directory d and name n remove(join(d, n)) sends
\* {dir: d, names: [n]}, the payload of remove(d, n)
C19_RemoveShapesAgree ==
    /\ BatchRemove
         => last.payload = [dir |-> last.call.path, names |-> last.call.names]
    /\ \A d \in Paths, n \in ProperNames :
         /\ (SingleRemove /\ last.call.path = join(d, n))
              => last.payload = [dir |-> d, names |-> <<n>>]
         /\ (BatchRemove /\ last.call.path = d /\ last.call.names = <<n>>)
              => RemovePayload(join(d, n), <<>>) = last.payload

\* C19 amended: the same for every directory d that does not end with a
\* slash or is the root
C19_RemoveShapesAgreeNormalDir ==
    /\ BatchRemove
         => last.payload = [dir |-> last.call.path, names |-> last.call.names]
    /\ \A d \in {p \in Paths : NormalDir(p)}, n \in ProperNames :
         /\ (SingleRemove /\ last.call.path = join(d, n))
              => last.payload = [dir |-> d, names |-> <<n>>]
         /\ (BatchRemove /\ last.call.path = d /\ last.call.names = <<n>>)
              => RemovePayload(join(d, n), <<>>) = last.payload

\* remove("a/b") posted {dir: "a", names: ["b"]}
C19_Witness ==
    /\ SingleRemove /\ last.call.path = <<"a", "/", "b">>
    /\ last.payload = [dir |-> <<"a">>, names |-> <<<<"b">>>>]

\* C20: for every directory d and every name n, rename(src, d + "/" + n)
\* and rename(src, n) send {path: src, name: n}, a name that is not empty;
\* and the name rename sends contains no slash
C20_RenameSendsBasename ==
    last.op = "rename"
    => /\ \A d \in Paths, n \in ProperNames :
            last.call.dst \in {n, d \o <<"/">> \o n}
            => (last.payload = [path |-> last.call.path, name |-> n]
                /\ last.payload.name # <<>>)
       /\ ~Contains(last.payload.name, <<"/">>)

\* rename("/a", "a/b") posted {path: "/a", name: "b"}
C20_Witness ==
    /\ last.op = "rename" /\ last.call.path = <<"/", "a">>
    /\ last.call.dst = <<"a", "/", "b">>
    /\ last.payload = [path |-> <<"/", "a">>, name |-> <<"b">>]

\* the logins and logouts of Authentication and of Client
SessionOps == {"login", "logout", "Client.login", "Client.logout"}

\* the operation that completed most recently is a login or a logout
\* that raised
SessionOpFailed == last.op \in SessionOps /\ last.out.exc # "none"

\* C22: a login or a logout that raises (AuthenticationFailed,
\* UnexceptedResponseCode, BadResponse, MalformedToken or a transport
\* failure) leaves context.auth_token as it was just before it completed; in
\* particular a failed login or logout of an authenticated session keeps the
\* token held
C22_FailureKeepsToken ==
    SessionOpFailed => auth_token = last.pre

\* a login answered 403 while a token was held, and the token is still held
C22_Witness ==
    /\ last.op = "login"
    /\ last.out.exc = "AuthenticationFailed"
    /\ Truthy(last.pre)
    /\ auth_token = last.pre

\* the errors of the core
CoreErrors == {"AuthenticationFailed", "UnexceptedResponseCode", "BadResponse",
               "TransportError"}

\* a turn of the loop in which the command's call of the core raised
CoreErrorTurn == loop = "prompt" /\ last' # last /\ last'.out.exc \in CoreErrors

\* a turn of the loop: a core error is printed and the next prompt follows;
\* the loop is left only after exit (_running is False) or after the end of
\* input (the farewell is printed), and only towards the cleanup
C21_Turn ==
    /\ CoreErrorTurn =>
         loop' = "prompt" /\ running' /\ console' = Line("error", last'.out)
    /\ (loop = "prompt" /\ loop' # "prompt") =>
         loop' = "cleanup" /\ (~running' \/ console' = Line("bye", Returned))

\* C21: the shell survives every core error: a command that raises
\* AuthenticationFailed, UnexceptedResponseCode, BadResponse or a transport
\* failure has its error printed and the loop prompts again; no exception
\* leaves Cli.start; the loop ends only on exit or end of input, and once
\* it has ended the cleanup runs before start returns
C21_ShellSurvives ==
    /\ [][C21_Turn]_vars
    /\ [](loop # "crashed")
    /\ [](loop = "returned" => phase = "cleaned" /\ ~running)
    /\ (loop = "cleanup" ~> loop = "returned")

\* a command raised a core error, the shell printed it and prompts again
C21_Witness ==
    /\ loop = "prompt"
    /\ running
    /\ last.out.exc \in CoreErrors
    /\ console = Line("error", last.out)

====
